---- MODULE Spec2Model ----
(***************************************************************************)
(* The Campaign Ledger of fund_it (src/src/index.ts): the canister's        *)
(* methods over one StableBTreeMap keyed by a generated identifier.         *)
(*                                                                          *)
(* Strings the code inspects (identifiers, titles, descriptions) are        *)
(* sequences of one-character strings, so substring, trim and the           *)
(* identifier regex are computed as the code computes them.                 *)
(* Time is counted in seconds: one unit of `now` is 10^9 of the             *)
(* nanoseconds ic.time() returns, so a day is SecondsPerDay units.          *)
(* A StableBTreeMap stores values, not references: get returns a copy and   *)
(* only insert/remove change what is stored.                                *)
(***************************************************************************)
EXTENDS Integers, Sequences, FiniteSets, TLC

VARIABLES
    campaignStorage,  \* the StableBTreeMap: campaign id -> Campaign
    now,              \* ic.time(), in seconds
    ret,              \* the most recent call: operation, id argument/result, outcome
    accepted          \* history: per stored id, the donations donateCampaign accepted

vars == <<campaignStorage, now, ret, accepted>>

---------------------------------------------------------------------------
(* Bounds of the model *)

MaxGoal == 2
MaxDonors == 2
MaxDays == 1

(* Program constant: the 86400 of `_deadline * 86400 * 1_000_000_000` *)
SecondsPerDay == 86400

---------------------------------------------------------------------------
(* Inputs *)

\* "" + Math.random(): the decimal strings the generator slices
FirstRandom == <<"0", ".", "1", "2", "3", "4", "5", "6", "7", "8">>
RandomStrings == { FirstRandom, <<"0", ".", "5">> }

\* a Principal argument: absent, a plain string, or a Principal object
Alice == [type |-> "string", text |-> "alice"]
NoProposer == [type |-> "undefined", text |-> ""]
Proposers ==
    { NoProposer,
      Alice,
      [type |-> "object", text |-> "aaaaa-aa"] }

\* text arguments: empty, blank, and one text that passes the trim check
ValidTitle == <<" ", "t">>
ValidDescription == <<"d">>
Titles == { <<>>, <<" ">>, ValidTitle }
Descriptions == { <<>>, <<" ">>, ValidDescription }
\* what updateOnlyTitleandDescription is given: it checks neither
UpdateTitles == { <<>>, <<"u">> }
UpdateDescriptions == { <<"v">> }
Goals == { -1, 0, MaxGoal }
DeadlineDays == { 0, MaxDays }
DonorIds == { "d1", "d2" }
Amounts == { -1, 0, 1, MaxGoal }

\* the instants the clock can show: the start, the longest deadline of a
\* campaign created at the start, and the second after each
Instants == { 0, 1, MaxDays * SecondsPerDay, MaxDays * SecondsPerDay + 1 }

---------------------------------------------------------------------------
(* String helpers *)

Min(a, b) == IF a <= b THEN a ELSE b

\* String.prototype.substring(start, end) for 0 <= start <= end
Substring(s, start, end) == SubSeq(s, start + 1, Min(end, Len(s)))

Whitespace == { " " }

RECURSIVE TrimStart(_)
TrimStart(s) ==
    IF s # <<>> /\ Head(s) \in Whitespace THEN TrimStart(Tail(s)) ELSE s

RECURSIVE TrimEnd(_)
TrimEnd(s) ==
    IF s # <<>> /\ s[Len(s)] \in Whitespace
    THEN TrimEnd(SubSeq(s, 1, Len(s) - 1))
    ELSE s

\* String.prototype.trim
Trim(s) == TrimEnd(TrimStart(s))

HexDigits ==
    { "0", "1", "2", "3", "4", "5", "6", "7", "8", "9", "a", "b", "c", "d", "e", "f" }

\* !id || !/^[a-f\d]{5}$/.test(id)
InvalidIdFormat(id) ==
    \/ id = <<>>
    \/ ~ (Len(id) = 5 /\ \A i \in 1 .. Len(id) : id[i] \in HexDigits)

\* const generateId = () => ("" + Math.random()).substring(2, 7)
generateId(random) == Substring(random, 2, 7)

CampaignIds == { generateId(r) : r \in RandomStrings }

---------------------------------------------------------------------------
(* Results *)

Ok(op, id, value) == [op |-> op, id |-> id, status |-> "Ok", value |-> {value}]
Err(op, id, status) == [op |-> op, id |-> id, status |-> status, value |-> {}]

RECURSIVE SumAmounts(_)
SumAmounts(donors) ==
    IF donors = <<>> THEN 0 ELSE Head(donors).amount + SumAmounts(Tail(donors))

---------------------------------------------------------------------------
(* The handlers: each maps the stored map, the clock and the arguments to   *)
(* the result it returns and the map it leaves behind.                      *)

\* createCampaign rejecting only a negative goal
createCampaignZeroGoal(store, time, _proposer, _title, _description, _goal, _deadline, random) ==
    IF _proposer.type = "undefined" \/ _proposer.text = "" \/ _proposer.type # "string"
    THEN [ret |-> Err("create", <<>>, "InvalidProposer"), store |-> store]
    ELSE IF _title = <<>> \/ Len(Trim(_title)) = 0
    THEN [ret |-> Err("create", <<>>, "MissingTitle"), store |-> store]
    ELSE IF _description = <<>> \/ Len(Trim(_description)) = 0
    THEN [ret |-> Err("create", <<>>, "MissingDescription"), store |-> store]
    ELSE IF _goal < 0
    THEN [ret |-> Err("create", <<>>, "InvalidGoal"), store |-> store]
    ELSE
        LET campaign == [ id |-> generateId(random),
                          proposer |-> _proposer,
                          title |-> _title,
                          description |-> _description,
                          goal |-> _goal,
                          totalDonations |-> 0,
                          deadline |-> time + _deadline * SecondsPerDay,
                          donors |-> <<>> ]
        IN  [ ret |-> Ok("create", campaign.id, campaign),
              store |-> [ k \in DOMAIN store \cup {campaign.id} |->
                            IF k = campaign.id THEN campaign ELSE store[k] ] ]

createCampaign(store, time, _proposer, _title, _description, _goal, _deadline, random) ==
    IF _proposer.type = "undefined" \/ _proposer.text = "" \/ _proposer.type # "string"
    THEN [ret |-> Err("create", <<>>, "InvalidProposer"), store |-> store]
    ELSE IF _title = <<>> \/ Len(Trim(_title)) = 0
    THEN [ret |-> Err("create", <<>>, "MissingTitle"), store |-> store]
    ELSE IF _description = <<>> \/ Len(Trim(_description)) = 0
    THEN [ret |-> Err("create", <<>>, "MissingDescription"), store |-> store]
    ELSE IF _goal = 0 \/ _goal <= 0
    THEN [ret |-> Err("create", <<>>, "InvalidGoal"), store |-> store]
    ELSE
        LET presentTime == time
            nanoSeconds == _deadline * SecondsPerDay
            endDate == presentTime + nanoSeconds
            campaign == [ id |-> generateId(random),
                          proposer |-> _proposer,
                          title |-> _title,
                          description |-> _description,
                          goal |-> _goal,
                          totalDonations |-> 0,
                          deadline |-> endDate,
                          donors |-> <<>> ]
        IN  [ ret |-> Ok("create", campaign.id, campaign),
              store |-> [ k \in DOMAIN store \cup {campaign.id} |->
                            IF k = campaign.id THEN campaign ELSE store[k] ] ]

\* updateOnlyTitleandDescription with the two texts assigned crosswise
updateOnlyTitleandDescriptionSwapped(store, _campaignId, _title, _description) ==
    IF _campaignId \in DOMAIN store
    THEN LET existingCampaign ==
                 [store[_campaignId] EXCEPT !.title = _description,
                                            !.description = _title]
         IN  [ ret |-> Ok("update", _campaignId, existingCampaign),
               store |-> [store EXCEPT ![_campaignId] = existingCampaign] ]
    ELSE [ret |-> Err("update", _campaignId, "NotFound"), store |-> store]

\* updateOnlyTitleandDescription writing the texts into every stored record
updateOnlyTitleandDescriptionEveryRecord(store, _campaignId, _title, _description) ==
    IF _campaignId \in DOMAIN store
    THEN LET existingCampaign ==
                 [store[_campaignId] EXCEPT !.title = _title,
                                            !.description = _description]
         IN  [ ret |-> Ok("update", _campaignId, existingCampaign),
               store |-> [ k \in DOMAIN store |->
                             [store[k] EXCEPT !.title = _title,
                                              !.description = _description] ] ]
    ELSE [ret |-> Err("update", _campaignId, "NotFound"), store |-> store]

updateOnlyTitleandDescription(store, _campaignId, _title, _description) ==
    IF _campaignId \in DOMAIN store
    THEN LET existingCampaign ==
                 [store[_campaignId] EXCEPT !.title = _title,
                                            !.description = _description]
         IN  [ ret |-> Ok("update", _campaignId, existingCampaign),
               store |-> [store EXCEPT ![_campaignId] = existingCampaign] ]
    ELSE [ret |-> Err("update", _campaignId, "NotFound"), store |-> store]

\* donateCampaign with the push reaching the stored record (a shared reference)
donateCampaignSharedRecord(store, time, _campaignId, _donorId, _amount) ==
    IF _campaignId \in DOMAIN store
    THEN LET existingCampaign == store[_campaignId]
         IN  IF time > existingCampaign.deadline
             THEN [ret |-> Err("donate", _campaignId, "CampaignEnded"), store |-> store]
             ELSE
                 LET newDonor == [id |-> _donorId, amount |-> _amount]
                     pushed == [existingCampaign EXCEPT
                                   !.donors = Append(@, newDonor)]
                 IN  IF pushed.goal >= pushed.totalDonations + _amount
                     THEN LET updated == [pushed EXCEPT
                                             !.totalDonations = @ + _amount]
                          IN  [ ret |-> Ok("donate", _campaignId, updated),
                                store |-> [store EXCEPT ![_campaignId] = updated] ]
                     ELSE [ ret |-> Err("donate", _campaignId, "GoalExceeded"),
                            store |-> [store EXCEPT ![_campaignId] = pushed] ]
    ELSE [ret |-> Err("donate", _campaignId, "NotFound"), store |-> store]

\* donateCampaign with the deadline compared after the donation is stored
donateCampaignLateDeadlineCheck(store, time, _campaignId, _donorId, _amount) ==
    IF _campaignId \in DOMAIN store
    THEN LET existingCampaign == store[_campaignId]
             newDonor == [id |-> _donorId, amount |-> _amount]
             pushed == [existingCampaign EXCEPT !.donors = Append(@, newDonor)]
         IN  IF pushed.goal >= pushed.totalDonations + _amount
             THEN LET updated == [pushed EXCEPT !.totalDonations = @ + _amount]
                  IN  IF time > existingCampaign.deadline
                      THEN [ ret |-> Err("donate", _campaignId, "CampaignEnded"),
                             store |-> [store EXCEPT ![_campaignId] = updated] ]
                      ELSE [ ret |-> Ok("donate", _campaignId, updated),
                             store |-> [store EXCEPT ![_campaignId] = updated] ]
             ELSE [ ret |-> Err("donate", _campaignId, "GoalExceeded"),
                    store |-> store ]
    ELSE [ret |-> Err("donate", _campaignId, "NotFound"), store |-> store]

\* donateCampaign adding the new donor at the front of the list
donateCampaignUnshift(store, time, _campaignId, _donorId, _amount) ==
    IF _campaignId \in DOMAIN store
    THEN LET existingCampaign == store[_campaignId]
         IN  IF time > existingCampaign.deadline
             THEN [ret |-> Err("donate", _campaignId, "CampaignEnded"), store |-> store]
             ELSE
                 LET newDonor == [id |-> _donorId, amount |-> _amount]
                     pushed == [existingCampaign EXCEPT
                                   !.donors = <<newDonor>> \o @]
                 IN  IF pushed.goal >= pushed.totalDonations + _amount
                     THEN LET updated == [pushed EXCEPT
                                             !.totalDonations = @ + _amount]
                          IN  [ ret |-> Ok("donate", _campaignId, updated),
                                store |-> [store EXCEPT ![_campaignId] = updated] ]
                     ELSE [ ret |-> Err("donate", _campaignId, "GoalExceeded"),
                            store |-> store ]
    ELSE [ret |-> Err("donate", _campaignId, "NotFound"), store |-> store]

\* donateCampaign ending the campaign at the deadline itself (>= for >)
donateCampaignInclusiveDeadline(store, time, _campaignId, _donorId, _amount) ==
    IF _campaignId \in DOMAIN store
    THEN LET existingCampaign == store[_campaignId]
         IN  IF time >= existingCampaign.deadline
             THEN [ret |-> Err("donate", _campaignId, "CampaignEnded"), store |-> store]
             ELSE
                 LET newDonor == [id |-> _donorId, amount |-> _amount]
                     pushed == [existingCampaign EXCEPT
                                   !.donors = Append(@, newDonor)]
                 IN  IF pushed.goal >= pushed.totalDonations + _amount
                     THEN LET updated == [pushed EXCEPT
                                             !.totalDonations = @ + _amount]
                          IN  [ ret |-> Ok("donate", _campaignId, updated),
                                store |-> [store EXCEPT ![_campaignId] = updated] ]
                     ELSE [ ret |-> Err("donate", _campaignId, "GoalExceeded"),
                            store |-> store ]
    ELSE [ret |-> Err("donate", _campaignId, "NotFound"), store |-> store]

\* donateCampaign refusing the donation that reaches the goal exactly (> for >=)
donateCampaignStrictGoal(store, time, _campaignId, _donorId, _amount) ==
    IF _campaignId \in DOMAIN store
    THEN LET existingCampaign == store[_campaignId]
         IN  IF time > existingCampaign.deadline
             THEN [ret |-> Err("donate", _campaignId, "CampaignEnded"), store |-> store]
             ELSE
                 LET newDonor == [id |-> _donorId, amount |-> _amount]
                     pushed == [existingCampaign EXCEPT
                                   !.donors = Append(@, newDonor)]
                 IN  IF pushed.goal > pushed.totalDonations + _amount
                     THEN LET updated == [pushed EXCEPT
                                             !.totalDonations = @ + _amount]
                          IN  [ ret |-> Ok("donate", _campaignId, updated),
                                store |-> [store EXCEPT ![_campaignId] = updated] ]
                     ELSE [ ret |-> Err("donate", _campaignId, "GoalExceeded"),
                            store |-> store ]
    ELSE [ret |-> Err("donate", _campaignId, "NotFound"), store |-> store]

\* donateCampaign storing the record before the donor is pushed
donateCampaignPushAfterInsert(store, time, _campaignId, _donorId, _amount) ==
    IF _campaignId \in DOMAIN store
    THEN LET existingCampaign == store[_campaignId]
         IN  IF time > existingCampaign.deadline
             THEN [ret |-> Err("donate", _campaignId, "CampaignEnded"), store |-> store]
             ELSE
                 LET newDonor == [id |-> _donorId, amount |-> _amount]
                     pushed == [existingCampaign EXCEPT
                                   !.donors = Append(@, newDonor)]
                 IN  IF pushed.goal >= pushed.totalDonations + _amount
                     THEN LET updated == [pushed EXCEPT
                                             !.totalDonations = @ + _amount]
                          IN  [ ret |-> Ok("donate", _campaignId, updated),
                                store |-> [store EXCEPT ![_campaignId] = [existingCampaign EXCEPT
                                             !.totalDonations = @ + _amount]] ]
                     ELSE [ ret |-> Err("donate", _campaignId, "GoalExceeded"),
                            store |-> store ]
    ELSE [ret |-> Err("donate", _campaignId, "NotFound"), store |-> store]

donateCampaign(store, time, _campaignId, _donorId, _amount) ==
    IF _campaignId \in DOMAIN store
    THEN LET existingCampaign == store[_campaignId]
         IN  IF time > existingCampaign.deadline
             THEN [ret |-> Err("donate", _campaignId, "CampaignEnded"), store |-> store]
             ELSE
                 LET newDonor == [id |-> _donorId, amount |-> _amount]
                     pushed == [existingCampaign EXCEPT
                                   !.donors = Append(@, newDonor)]
                 IN  IF pushed.goal >= pushed.totalDonations + _amount
                     THEN LET updated == [pushed EXCEPT
                                             !.totalDonations = @ + _amount]
                          IN  [ ret |-> Ok("donate", _campaignId, updated),
                                store |-> [store EXCEPT ![_campaignId] = updated] ]
                     ELSE [ ret |-> Err("donate", _campaignId, "GoalExceeded"),
                            store |-> store ]
    ELSE [ret |-> Err("donate", _campaignId, "NotFound"), store |-> store]

\* getCampaign looking the id up without the format check
getCampaignNoFormatCheck(store, id) ==
    IF id \in DOMAIN store
    THEN [ret |-> Ok("get", id, store[id]), store |-> store]
    ELSE [ret |-> Err("get", id, "NotFound"), store |-> store]

getCampaign(store, id) ==
    IF InvalidIdFormat(id)
    THEN [ret |-> Err("get", id, "InvalidId"), store |-> store]
    ELSE IF id \in DOMAIN store
    THEN [ret |-> Ok("get", id, store[id]), store |-> store]
    ELSE [ret |-> Err("get", id, "NotFound"), store |-> store]

getDeadlineByCampaignId(store, id) ==
    IF InvalidIdFormat(id)
    THEN [ret |-> Err("getDeadline", id, "InvalidId"), store |-> store]
    ELSE IF id \in DOMAIN store
    THEN [ret |-> Ok("getDeadline", id, store[id].deadline), store |-> store]
    ELSE [ret |-> Err("getDeadline", id, "NotFound"), store |-> store]

\* deleteCampaign reading the record with get instead of remove
deleteCampaignKeepsRecord(store, id) ==
    IF InvalidIdFormat(id)
    THEN [ret |-> Err("delete", id, "InvalidId"), store |-> store]
    ELSE IF id \in DOMAIN store
    THEN [ret |-> Ok("delete", id, store[id]), store |-> store]
    ELSE [ret |-> Err("delete", id, "NotFound"), store |-> store]

deleteCampaign(store, id) ==
    IF InvalidIdFormat(id)
    THEN [ret |-> Err("delete", id, "InvalidId"), store |-> store]
    ELSE IF id \in DOMAIN store
    THEN [ ret |-> Ok("delete", id, store[id]),
           store |-> [k \in DOMAIN store \ {id} |-> store[k]] ]
    ELSE [ret |-> Err("delete", id, "NotFound"), store |-> store]

---------------------------------------------------------------------------
(* The handlers when a call on the map throws.  fault names the map call    *)
(* that throws, "none" when none does; a call that throws stores nothing.   *)
(* A handler whose body is inside try/catch returns the Err of its catch    *)
(* clause (StorageFailure); without try/catch the exception leaves the      *)
(* handler (Thrown).                                                        *)

Faults == { "none", "get", "insert", "remove" }

\* index.ts: insert is the only map call, reached after the validation
createCampaignOnFault(store, time, _proposer, _title, _description, _goal, _deadline, random, fault) ==
    LET r == createCampaign(store, time, _proposer, _title, _description,
                            _goal, _deadline, random)
    IN  IF fault = "insert" /\ r.ret.status = "Ok"
        THEN [ret |-> Err("create", <<>>, "StorageFailure"), store |-> store]
        ELSE r

\* index.ts: get, then insert when the record was found
updateOnlyTitleandDescriptionOnFault(store, _campaignId, _title, _description, fault) ==
    LET r == updateOnlyTitleandDescription(store, _campaignId, _title, _description)
    IN  IF fault = "get" \/ (fault = "insert" /\ r.ret.status = "Ok")
        THEN [ret |-> Err("update", _campaignId, "StorageFailure"), store |-> store]
        ELSE r

\* index.ts: get, then insert when the donation was accepted
donateCampaignOnFault(store, time, _campaignId, _donorId, _amount, fault) ==
    LET r == donateCampaign(store, time, _campaignId, _donorId, _amount)
    IN  IF fault = "get" \/ (fault = "insert" /\ r.ret.status = "Ok")
        THEN [ret |-> Err("donate", _campaignId, "StorageFailure"), store |-> store]
        ELSE r

\* part_000: the same body with no try/catch around it
donateCampaignPart000OnFault(store, time, _campaignId, _donorId, _amount, fault) ==
    LET r == donateCampaign(store, time, _campaignId, _donorId, _amount)
    IN  IF fault = "get" \/ (fault = "insert" /\ r.ret.status = "Ok")
        THEN [ret |-> Err("donate", _campaignId, "Thrown"), store |-> store]
        ELSE r

\* index.ts: get, reached when the id has the format
getCampaignOnFault(store, id, fault) ==
    LET r == getCampaign(store, id)
    IN  IF fault = "get" /\ r.ret.status # "InvalidId"
        THEN [ret |-> Err("get", id, "StorageFailure"), store |-> store]
        ELSE r

getDeadlineByCampaignIdOnFault(store, id, fault) ==
    LET r == getDeadlineByCampaignId(store, id)
    IN  IF fault = "get" /\ r.ret.status # "InvalidId"
        THEN [ret |-> Err("getDeadline", id, "StorageFailure"), store |-> store]
        ELSE r

\* index.ts: remove, reached when the id has the format
deleteCampaignOnFault(store, id, fault) ==
    LET r == deleteCampaign(store, id)
    IN  IF fault = "remove" /\ r.ret.status # "InvalidId"
        THEN [ret |-> Err("delete", id, "StorageFailure"), store |-> store]
        ELSE r

---------------------------------------------------------------------------
(* The state machine *)

Init ==
    /\ campaignStorage = <<>>
    /\ now = 0
    /\ ret = Err("init", <<>>, "None")
    /\ accepted = <<>>

\* the accepted-donation history follows the keys of the map
Restrict(f, keys) == [k \in keys |-> f[k]]

CreateCampaign(_proposer, _title, _description, _goal, _deadline, random) ==
    LET r == createCampaign(campaignStorage, now, _proposer, _title,
                            _description, _goal, _deadline, random)
    IN  /\ campaignStorage' = r.store
        /\ ret' = r.ret
        /\ accepted' = IF r.ret.status = "Ok"
                       THEN [k \in DOMAIN accepted \cup {r.ret.id} |->
                                IF k = r.ret.id THEN <<>> ELSE accepted[k]]
                       ELSE accepted
        /\ UNCHANGED now

UpdateOnlyTitleandDescription(_campaignId, _title, _description) ==
    LET r == updateOnlyTitleandDescription(campaignStorage, _campaignId,
                                           _title, _description)
    IN  /\ campaignStorage' = r.store
        /\ ret' = r.ret
        /\ UNCHANGED <<now, accepted>>

DonateCampaign(_campaignId, _donorId, _amount) ==
    LET r == donateCampaign(campaignStorage, now, _campaignId, _donorId, _amount)
    IN  /\ r.ret.status = "Ok" => Len(accepted[_campaignId]) < MaxDonors
        /\ campaignStorage' = r.store
        /\ ret' = r.ret
        /\ accepted' = IF r.ret.status = "Ok"
                       THEN [accepted EXCEPT ![_campaignId] =
                                Append(@, [id |-> _donorId, amount |-> _amount])]
                       ELSE accepted
        /\ UNCHANGED now

GetCampaign(id) ==
    LET r == getCampaign(campaignStorage, id)
    IN  /\ campaignStorage' = r.store
        /\ ret' = r.ret
        /\ UNCHANGED <<now, accepted>>

GetDeadlineByCampaignId(id) ==
    LET r == getDeadlineByCampaignId(campaignStorage, id)
    IN  /\ campaignStorage' = r.store
        /\ ret' = r.ret
        /\ UNCHANGED <<now, accepted>>

DeleteCampaign(id) ==
    LET r == deleteCampaign(campaignStorage, id)
    IN  /\ campaignStorage' = r.store
        /\ ret' = r.ret
        /\ accepted' = Restrict(accepted, DOMAIN accepted \cap DOMAIN r.store)
        /\ UNCHANGED now

\* the clock never goes back
AdvanceClock(t) ==
    /\ t > now
    /\ now' = t
    /\ UNCHANGED <<campaignStorage, ret, accepted>>

\* The ledger: every operation on the campaign the generator's first output
\* names; "5" is never stored here and serves as a malformed id argument.
Next ==
    \/ \E g \in Goals, days \in DeadlineDays :
          CreateCampaign(Alice, ValidTitle, ValidDescription, g, days, FirstRandom)
    \/ \E id \in CampaignIds, t \in UpdateTitles, d \in UpdateDescriptions :
          UpdateOnlyTitleandDescription(id, t, d)
    \/ \E id \in CampaignIds, donor \in DonorIds, a \in Amounts :
          DonateCampaign(id, donor, a)
    \/ \E id \in CampaignIds : GetCampaign(id)
    \/ \E id \in CampaignIds : GetDeadlineByCampaignId(id)
    \/ \E id \in CampaignIds : DeleteCampaign(id)
    \/ \E t \in Instants : AdvanceClock(t)

Spec == Init /\ [][Next]_vars

\* Creation and removal over every combination of createCampaign's inputs
NextCreate ==
    \/ \E p \in Proposers, t \in Titles, d \in Descriptions, g \in Goals,
          days \in DeadlineDays, r \in RandomStrings :
          CreateCampaign(p, t, d, g, days, r)
    \/ \E id \in CampaignIds : DeleteCampaign(id)
    \/ \E t \in Instants : AdvanceClock(t)

SpecCreate == Init /\ [][NextCreate]_vars

\* Two campaigns side by side: a second output of the generator, and the
\* operations that change a record applied to either id.
SecondRandom == <<"0", ".", "9", "8", "7", "6", "5", "4", "3", "2">>
PairRandoms == { FirstRandom, SecondRandom }
PairIds == { generateId(r) : r \in PairRandoms }
PairAmounts == { 1, MaxGoal }

NextPair ==
    \/ \E r \in PairRandoms :
          CreateCampaign(Alice, ValidTitle, ValidDescription, MaxGoal, MaxDays, r)
    \/ \E id \in PairIds : UpdateOnlyTitleandDescription(id, <<"u">>, <<"v">>)
    \/ \E id \in PairIds, a \in PairAmounts : DonateCampaign(id, "d1", a)
    \/ \E id \in PairIds : DeleteCampaign(id)
    \/ \E t \in Instants : AdvanceClock(t)

SpecPair == Init /\ [][NextPair]_vars

\* The ledger over a map whose calls can throw
CreateCampaignOnFault(_proposer, _title, _description, _goal, _deadline, random, fault) ==
    LET r == createCampaignOnFault(campaignStorage, now, _proposer, _title,
                                   _description, _goal, _deadline, random, fault)
    IN  /\ campaignStorage' = r.store
        /\ ret' = r.ret
        /\ accepted' = IF r.ret.status = "Ok"
                       THEN [k \in DOMAIN accepted \cup {r.ret.id} |->
                                IF k = r.ret.id THEN <<>> ELSE accepted[k]]
                       ELSE accepted
        /\ UNCHANGED now

UpdateOnlyTitleandDescriptionOnFault(_campaignId, _title, _description, fault) ==
    LET r == updateOnlyTitleandDescriptionOnFault(campaignStorage, _campaignId,
                                                 _title, _description, fault)
    IN  /\ campaignStorage' = r.store
        /\ ret' = r.ret
        /\ UNCHANGED <<now, accepted>>

DonateCampaignOnFault(_campaignId, _donorId, _amount, fault) ==
    LET r == donateCampaignOnFault(campaignStorage, now, _campaignId, _donorId,
                                   _amount, fault)
    IN  /\ r.ret.status = "Ok" => Len(accepted[_campaignId]) < MaxDonors
        /\ campaignStorage' = r.store
        /\ ret' = r.ret
        /\ accepted' = IF r.ret.status = "Ok"
                       THEN [accepted EXCEPT ![_campaignId] =
                                Append(@, [id |-> _donorId, amount |-> _amount])]
                       ELSE accepted
        /\ UNCHANGED now

DonateCampaignPart000OnFault(_campaignId, _donorId, _amount, fault) ==
    LET r == donateCampaignPart000OnFault(campaignStorage, now, _campaignId,
                                          _donorId, _amount, fault)
    IN  /\ r.ret.status = "Ok" => Len(accepted[_campaignId]) < MaxDonors
        /\ campaignStorage' = r.store
        /\ ret' = r.ret
        /\ accepted' = IF r.ret.status = "Ok"
                       THEN [accepted EXCEPT ![_campaignId] =
                                Append(@, [id |-> _donorId, amount |-> _amount])]
                       ELSE accepted
        /\ UNCHANGED now

GetCampaignOnFault(id, fault) ==
    LET r == getCampaignOnFault(campaignStorage, id, fault)
    IN  /\ campaignStorage' = r.store
        /\ ret' = r.ret
        /\ UNCHANGED <<now, accepted>>

GetDeadlineByCampaignIdOnFault(id, fault) ==
    LET r == getDeadlineByCampaignIdOnFault(campaignStorage, id, fault)
    IN  /\ campaignStorage' = r.store
        /\ ret' = r.ret
        /\ UNCHANGED <<now, accepted>>

DeleteCampaignOnFault(id, fault) ==
    LET r == deleteCampaignOnFault(campaignStorage, id, fault)
    IN  /\ campaignStorage' = r.store
        /\ ret' = r.ret
        /\ accepted' = Restrict(accepted, DOMAIN accepted \cap DOMAIN r.store)
        /\ UNCHANGED now

NextFault ==
    \/ \E days \in DeadlineDays, fault \in Faults :
          CreateCampaignOnFault(Alice, ValidTitle, ValidDescription, MaxGoal,
                                days, FirstRandom, fault)
    \/ \E id \in CampaignIds, fault \in Faults :
          UpdateOnlyTitleandDescriptionOnFault(id, <<"u">>, <<"v">>, fault)
    \/ \E id \in CampaignIds, a \in PairAmounts, fault \in Faults :
          DonateCampaignOnFault(id, "d1", a, fault)
    \/ \E id \in CampaignIds, a \in PairAmounts, fault \in Faults :
          DonateCampaignPart000OnFault(id, "d1", a, fault)
    \/ \E id \in CampaignIds, fault \in Faults : GetCampaignOnFault(id, fault)
    \/ \E id \in CampaignIds, fault \in Faults : GetDeadlineByCampaignIdOnFault(id, fault)
    \/ \E id \in CampaignIds, fault \in Faults : DeleteCampaignOnFault(id, fault)
    \/ \E t \in Instants : AdvanceClock(t)

SpecFault == Init /\ [][NextFault]_vars

---------------------------------------------------------------------------
(* Claims about donateCampaign *)

\* the campaigns a donation can still reach: stored and not past the deadline
OpenCampaigns == { id \in DOMAIN campaignStorage : now <= campaignStorage[id].deadline }
EndedCampaigns == { id \in DOMAIN campaignStorage : now > campaignStorage[id].deadline }

\* C1: for every stored campaign whose deadline has not passed and every
\* amount with totalDonations + amount > goal, donateCampaign returns
\* GoalExceeded and the map it leaves is the map it found: no donor entry is
\* appended to the stored record and totalDonations is the same.
C1_GoalExceededLeavesRecord ==
    \A id \in OpenCampaigns, donor \in DonorIds, a \in Amounts :
        campaignStorage[id].totalDonations + a > campaignStorage[id].goal =>
            LET r == donateCampaign(campaignStorage, now, id, donor, a)
            IN  /\ r.ret.status = "GoalExceeded"
                /\ r.store = campaignStorage

\* C1 witness: a donation was rejected with GoalExceeded on a campaign that
\* already holds an accepted donation
C1_Witness ==
    /\ ret.op = "donate" /\ ret.status = "GoalExceeded"
    /\ ret.id \in OpenCampaigns
    /\ Len(campaignStorage[ret.id].donors) = 1
    /\ campaignStorage[ret.id].totalDonations = 1

\* C2: for every stored campaign whose deadline lies strictly before the
\* current time, donateCampaign returns CampaignEnded and leaves the map (so
\* donors and totalDonations) unchanged; the state after the rejection is the
\* state before it, so the same call repeated is rejected the same way.
C2_EndedRejected ==
    \A id \in EndedCampaigns, donor \in DonorIds, a \in Amounts :
        LET r == donateCampaign(campaignStorage, now, id, donor, a)
            again == donateCampaign(r.store, now, id, donor, a)
        IN  /\ r.ret.status = "CampaignEnded"
            /\ r.store = campaignStorage
            /\ again = r

\* C2 witness: a donation was rejected with CampaignEnded on a campaign that
\* took a donation while it was open
C2_Witness ==
    /\ ret.op = "donate" /\ ret.status = "CampaignEnded"
    /\ ret.id \in EndedCampaigns
    /\ Len(campaignStorage[ret.id].donors) = 1

\* C3: a donation of zero or less to a stored, open campaign fails with
\* InvalidAmount and leaves the map unchanged.
C3_NonPositiveAmountRejected ==
    [][ \A id \in OpenCampaigns, donor \in DonorIds, a \in Amounts :
          (a <= 0 /\ DonateCampaign(id, donor, a)) =>
              /\ ret'.status = "InvalidAmount"
              /\ campaignStorage' = campaignStorage ]_vars

\* C4: every stored campaign has 0 <= totalDonations <= goal.
C4_TotalWithinGoal ==
    \A id \in DOMAIN campaignStorage :
        /\ 0 <= campaignStorage[id].totalDonations
        /\ campaignStorage[id].totalDonations <= campaignStorage[id].goal

\* C5: the stored donors of a campaign are exactly the donations
\* donateCampaign accepted for it, in call order (rejected ones absent,
\* repeated donor ids as separate entries), and totalDonations is their sum.
C5_DonorsAreAcceptedDonations ==
    /\ DOMAIN accepted = DOMAIN campaignStorage
    /\ \A id \in DOMAIN campaignStorage :
          /\ campaignStorage[id].donors = accepted[id]
          /\ campaignStorage[id].totalDonations = SumAmounts(accepted[id])

\* C5 witness: two accepted donations of different amounts by one donor, then
\* a rejected one
C5_Witness ==
    /\ ret.op = "donate" /\ ret.status = "GoalExceeded"
    /\ ret.id \in DOMAIN campaignStorage
    /\ campaignStorage[ret.id].donors =
          << [id |-> "d1", amount |-> 0], [id |-> "d1", amount |-> 1] >>

---------------------------------------------------------------------------
(* Claims about createCampaign *)

ValidationErrors ==
    { "InvalidProposer", "MissingTitle", "MissingDescription", "InvalidGoal" }

\* the step is a call of createCampaign
CreateStep ==
    \E p \in Proposers, t \in Titles, d \in Descriptions, g \in Goals,
       days \in DeadlineDays, r \in RandomStrings :
       CreateCampaign(p, t, d, g, days, r)

\* C6: a successful createCampaign stores the new record under an id that
\* was not a key of the map, and every record stored before the call is the
\* same after it.
C6_CreateUsesFreshId ==
    [][ (ret'.op = "create" /\ ret'.status = "Ok" /\ CreateStep) =>
            /\ ret'.id \notin DOMAIN campaignStorage
            /\ \A k \in DOMAIN campaignStorage :
                  campaignStorage'[k] = campaignStorage[k] ]_vars

\* C7: with a proposer present, a title and a description that are not
\* blank, goal > 0 and deadlineDays >= 0, createCampaign succeeds, and the
\* record it returns, which is the record stored under its id, has
\* totalDonations 0, no donors, the given proposer, title, description and
\* goal, and deadline = clock + deadlineDays * 86400 * 10^9 ns.
C7_CreateSucceedsOnValidInput ==
    [][ \A p \in Proposers, t \in Titles, d \in Descriptions, g \in Goals,
           days \in DeadlineDays, r \in RandomStrings :
           ( /\ p # NoProposer
             /\ Trim(t) # <<>> /\ Trim(d) # <<>>
             /\ g > 0 /\ days >= 0
             /\ CreateCampaign(p, t, d, g, days, r) ) =>
               /\ ret'.status = "Ok"
               /\ ret'.id \in DOMAIN campaignStorage'
               /\ ret'.value = { campaignStorage'[ret'.id] }
               /\ \A c \in ret'.value :
                     /\ c.totalDonations = 0 /\ c.donors = <<>>
                     /\ c.proposer = p /\ c.title = t /\ c.description = d
                     /\ c.goal = g
                     /\ c.deadline = now + days * SecondsPerDay ]_vars

\* C8 as stated: goal <= 0 always gives InvalidGoal, and a validation error
\* leaves the map unchanged.
C8_NonPositiveGoalIsInvalidGoal ==
    [][ \A p \in Proposers, t \in Titles, d \in Descriptions, g \in Goals,
           days \in DeadlineDays, r \in RandomStrings :
           CreateCampaign(p, t, d, g, days, r) =>
               /\ g <= 0 => ret'.status = "InvalidGoal"
               /\ ret'.status \in ValidationErrors =>
                      campaignStorage' = campaignStorage ]_vars

\* C8 amended: goal <= 0 always gives a validation error, which is
\* InvalidGoal when the proposer is a non-empty string and the title and the
\* description are not blank (the earlier checks answer first otherwise);
\* and whenever createCampaign returns a validation error the map is unchanged.
C8_NonPositiveGoalRejected ==
    \A p \in Proposers, t \in Titles, d \in Descriptions, g \in Goals,
       days \in DeadlineDays, r \in RandomStrings :
       LET res == createCampaign(campaignStorage, now, p, t, d, g, days, r)
       IN  /\ g <= 0 => res.ret.status \in ValidationErrors
           /\ ( /\ g <= 0
                /\ p.type = "string" /\ p.text # ""
                /\ Trim(t) # <<>> /\ Trim(d) # <<>> )
                => res.ret.status = "InvalidGoal"
           /\ res.ret.status \in ValidationErrors => res.store = campaignStorage

\* C8 witness: createCampaign answered InvalidGoal while a campaign was stored
C8_Witness ==
    /\ ret.op = "create" /\ ret.status = "InvalidGoal"
    /\ campaignStorage # <<>>

---------------------------------------------------------------------------
(* Claims about deleteCampaign, getCampaign and updateOnlyTitleandDescription *)

C10_UpdateChangesOnlyTexts ==
    \A id \in DOMAIN campaignStorage, t \in UpdateTitles, d \in UpdateDescriptions :
        LET res == updateOnlyTitleandDescription(campaignStorage, id, t, d)
            old == campaignStorage[id]
        IN  /\ res.ret.status = "Ok"
            /\ DOMAIN res.store = DOMAIN campaignStorage
            /\ res.ret.value = { res.store[id] }
            /\ res.store[id].title = t
            /\ res.store[id].description = d
            /\ res.store[id].goal = old.goal
            /\ res.store[id].deadline = old.deadline
            /\ res.store[id].donors = old.donors
            /\ res.store[id].totalDonations = old.totalDonations
            /\ res.store[id].proposer = old.proposer
            /\ res.store[id].id = old.id

\* C10 witness: an update succeeded on a campaign past its deadline whose
\* goal is reached
C10_Witness ==
    /\ ret.op = "update" /\ ret.status = "Ok"
    /\ ret.id \in EndedCampaigns
    /\ campaignStorage[ret.id].totalDonations = campaignStorage[ret.id].goal
    /\ campaignStorage[ret.id].title = <<"u">>
    /\ campaignStorage[ret.id].description = <<"v">>

---------------------------------------------------------------------------
(* Claims about stored texts and absent identifiers *)

\* C11: every stored campaign has a non-empty title and a non-empty
\* description.
C11_TextsNonEmpty ==
    \A id \in DOMAIN campaignStorage :
        /\ campaignStorage[id].title # <<>>
        /\ campaignStorage[id].description # <<>>

\* the identifiers a call can name that are not keys of the map
AbsentIds == CampaignIds \ DOMAIN campaignStorage

\* C12 as stated: for an id that is not a key of the map, update, donate,
\* get, getDeadline and delete each return NotFound and leave the map as it is.
C12_AbsentIdIsNotFound ==
    [][ \A id \in AbsentIds :
          ( \/ \E t \in UpdateTitles, d \in UpdateDescriptions :
                  UpdateOnlyTitleandDescription(id, t, d)
            \/ \E donor \in DonorIds, a \in Amounts : DonateCampaign(id, donor, a)
            \/ GetCampaign(id)
            \/ GetDeadlineByCampaignId(id)
            \/ DeleteCampaign(id) ) =>
              ret'.status = "NotFound" /\ campaignStorage' = campaignStorage ]_vars

\* C12 amended: for an id that is not a key of the map, update and donate
\* return NotFound; get, getDeadline and delete return NotFound when the id
\* has the identifier format and InvalidId when it has not; each leaves the
\* whole map unchanged, so none creates a record for the id.
C12_AbsentIdFindsNothing ==
    \A id \in AbsentIds :
        /\ \A t \in UpdateTitles, d \in UpdateDescriptions :
              LET r == updateOnlyTitleandDescription(campaignStorage, id, t, d)
              IN  r.ret.status = "NotFound" /\ r.store = campaignStorage
        /\ \A donor \in DonorIds, a \in Amounts :
              LET r == donateCampaign(campaignStorage, now, id, donor, a)
              IN  r.ret.status = "NotFound" /\ r.store = campaignStorage
        /\ \A r \in { getCampaign(campaignStorage, id),
                       getDeadlineByCampaignId(campaignStorage, id),
                       deleteCampaign(campaignStorage, id) } :
              /\ r.ret.status = IF InvalidIdFormat(id) THEN "InvalidId" ELSE "NotFound"
              /\ r.store = campaignStorage

\* C12 witness: a donation to a well-formed id that had been deleted was
\* answered NotFound
C12_Witness ==
    /\ ret.op = "donate" /\ ret.status = "NotFound"
    /\ ~ InvalidIdFormat(ret.id)
    /\ ret.id \in AbsentIds
    /\ now > 0

---------------------------------------------------------------------------
(* Claims about independent campaigns *)

\* the map holding only the record of one id
Only(store, id) == Restrict(store, DOMAIN store \cap {id})

\* C13: updateOnlyTitleandDescription, donateCampaign and deleteCampaign
\* applied to id A leave the stored record of every other id B as it was, and
\* what they do to A's own record and what they return is the same as in the
\* map that holds A alone; so B's record after any interleaving with calls on
\* A is the one the calls on B alone produce.
C13_OtherCampaignsUntouched ==
    \A A \in PairIds :
        /\ \A t \in UpdateTitles, d \in UpdateDescriptions :
              LET r == updateOnlyTitleandDescription(campaignStorage, A, t, d)
                  alone == updateOnlyTitleandDescription(Only(campaignStorage, A), A, t, d)
              IN  /\ \A B \in DOMAIN campaignStorage \ {A} :
                        B \in DOMAIN r.store /\ r.store[B] = campaignStorage[B]
                  /\ r.ret = alone.ret
                  /\ Only(r.store, A) = alone.store
        /\ \A donor \in DonorIds, a \in Amounts :
              LET r == donateCampaign(campaignStorage, now, A, donor, a)
                  alone == donateCampaign(Only(campaignStorage, A), now, A, donor, a)
              IN  /\ \A B \in DOMAIN campaignStorage \ {A} :
                        B \in DOMAIN r.store /\ r.store[B] = campaignStorage[B]
                  /\ r.ret = alone.ret
                  /\ Only(r.store, A) = alone.store
        /\ LET r == deleteCampaign(campaignStorage, A)
               alone == deleteCampaign(Only(campaignStorage, A), A)
           IN  /\ \A B \in DOMAIN campaignStorage \ {A} :
                     B \in DOMAIN r.store /\ r.store[B] = campaignStorage[B]
               /\ r.ret = alone.ret
               /\ Only(r.store, A) = alone.store

\* two campaigns are stored; one was updated and then given a donation, the
\* other still has the texts and the empty donor list it was created with
C13_Witness ==
    /\ ret.op = "donate" /\ ret.status = "Ok"
    /\ ret.id \in DOMAIN campaignStorage
    /\ campaignStorage[ret.id].title = <<"u">>
    /\ campaignStorage[ret.id].totalDonations = MaxGoal
    /\ \E B \in DOMAIN campaignStorage \ {ret.id} :
          /\ campaignStorage[B].title = ValidTitle
          /\ campaignStorage[B].donors = <<>>

---------------------------------------------------------------------------
(* Claims about a failing map *)

\* C14: when a call on the map throws during an operation, the operation
\* returns StorageFailure, the exception does not reach the caller, and the
\* map is as it was before the call.
C14_StorageFaultIsReturned ==
    [][ /\ ret'.status # "Thrown"
        /\ ret'.status = "StorageFailure" => campaignStorage' = campaignStorage ]_vars

---------------------------------------------------------------------------
(* Claims about the course of a campaign *)

\* C15: once donateCampaign has returned CampaignEnded for an id, no later
\* donateCampaign on that id succeeds, whatever calls come in between: after
\* any step from a state whose last result is that rejection, a donation to
\* the id is still answered CampaignEnded or NotFound.
C15_EndedStaysEnded ==
    [][ (ret.op = "donate" /\ ret.status = "CampaignEnded") =>
          \A donor \in DonorIds, a \in Amounts :
              donateCampaign(campaignStorage', now', ret.id, donor, a).ret.status
                  \in { "CampaignEnded", "NotFound" } ]_vars

\* C16: while an id stays in the map, no step makes its totalDonations smaller.
C16_TotalNeverDecreases ==
    [][ \A id \in DOMAIN campaignStorage \cap DOMAIN campaignStorage' :
          campaignStorage'[id].totalDonations >= campaignStorage[id].totalDonations ]_vars

---------------------------------------------------------------------------
(* Claims about the deadline and the goal *)

\* C17: for a stored campaign donateCampaign returns CampaignEnded exactly
\* when the current time is strictly greater than the stored deadline, so a
\* donation at the deadline itself is not rejected as ended; and a campaign
\* created with _deadline = 0 rejects every donation made at a later instant
\* with CampaignEnded, and none made at the instant of its creation.
C17_EndedExactlyAfterDeadline ==
    /\ \A id \in DOMAIN campaignStorage, donor \in DonorIds, a \in Amounts :
          donateCampaign(campaignStorage, now, id, donor, a).ret.status = "CampaignEnded"
              <=> now > campaignStorage[id].deadline
    /\ LET c == createCampaign(campaignStorage, now, Alice, ValidTitle,
                               ValidDescription, MaxGoal, 0, FirstRandom)
       IN  \A t \in Instants, donor \in DonorIds, a \in Amounts :
              t >= now =>
                 ( donateCampaign(c.store, t, c.ret.id, donor, a).ret.status = "CampaignEnded"
                      <=> t > now )

\* a donation was accepted at the very instant of the deadline, a day after
\* the campaign was created
C17_Witness ==
    /\ ret.op = "donate" /\ ret.status = "Ok"
    /\ ret.id \in DOMAIN campaignStorage
    /\ now = campaignStorage[ret.id].deadline
    /\ now = MaxDays * SecondsPerDay
    /\ Len(campaignStorage[ret.id].donors) = 1

\* the scenario of the goal of 100: 60 accepted, 50 rejected with the total
\* still 60, 40 accepted giving 100, 1 rejected
GoalScenario ==
    LET c  == createCampaign(<<>>, 0, Alice, ValidTitle, ValidDescription,
                             100, 1, FirstRandom)
        id == c.ret.id
        d1 == donateCampaign(c.store, 0, id, "d1", 60)
        d2 == donateCampaign(d1.store, 0, id, "d2", 50)
        d3 == donateCampaign(d2.store, 0, id, "d2", 40)
        d4 == donateCampaign(d3.store, 0, id, "d1", 1)
    IN  /\ d1.ret.status = "Ok" /\ d1.store[id].totalDonations = 60
        /\ d2.ret.status = "GoalExceeded" /\ d2.store[id].totalDonations = 60
        /\ d3.ret.status = "Ok" /\ d3.store[id].totalDonations = 100
        /\ d4.ret.status = "GoalExceeded" /\ d4.store = d3.store

\* C18: for a stored open campaign and a positive amount, donateCampaign
\* accepts the donation, adding the amount to totalDonations, if and only if
\* totalDonations + amount <= goal, and otherwise returns GoalExceeded and
\* leaves the map as it was; so the donation that reaches the goal exactly is
\* accepted, a rejection does not stand in the way of a later donation that
\* fits, and at totalDonations = goal every positive donation is rejected.
C18_AcceptedIffWithinGoal ==
    /\ \A id \in OpenCampaigns, donor \in DonorIds, a \in Amounts :
          a > 0 =>
             LET c == campaignStorage[id]
                 r == donateCampaign(campaignStorage, now, id, donor, a)
             IN  IF c.totalDonations + a <= c.goal
                 THEN /\ r.ret.status = "Ok"
                      /\ r.store[id].totalDonations = c.totalDonations + a
                 ELSE /\ r.ret.status = "GoalExceeded"
                      /\ r.store = campaignStorage
    /\ GoalScenario

\* two donations were accepted, the second reaching the goal exactly, and the
\* donation after that is rejected
C18_Witness ==
    /\ ret.op = "donate" /\ ret.status = "GoalExceeded"
    /\ ret.id \in OpenCampaigns
    /\ campaignStorage[ret.id].totalDonations = campaignStorage[ret.id].goal
    /\ Len(campaignStorage[ret.id].donors) = MaxDonors
    /\ \A i \in 1..MaxDonors : campaignStorage[ret.id].donors[i].amount > 0

\* C19: in every state, for every stored campaign, totalDonations is the sum
\* of the amounts in its stored donors list.
C19_TotalIsSumOfDonors ==
    \A id \in DOMAIN campaignStorage :
        campaignStorage[id].totalDonations = SumAmounts(campaignStorage[id].donors)

\* one donation is stored and the next, which does not fit, was rejected and
\* left no donor entry behind
C19_Witness ==
    /\ ret.op = "donate" /\ ret.status = "GoalExceeded"
    /\ ret.id \in DOMAIN campaignStorage
    /\ Len(campaignStorage[ret.id].donors) = 1
    /\ campaignStorage[ret.id].totalDonations = 1

---------------------------------------------------------------------------
(* Claims about the identifier *)

\* C20: every stored campaign can be read with getCampaign and removed with
\* deleteCampaign under its id: no stored id is rejected by the format check.
C20_StoredIdsPassFormatCheck ==
    \A id \in DOMAIN campaignStorage :
        /\ ~InvalidIdFormat(id)
        /\ getCampaign(campaignStorage, id).ret.status = "Ok"
        /\ deleteCampaign(campaignStorage, id).ret.status = "Ok"

====
